---- MODULE Spec2Model ----
(***************************************************************************)
(* Model of the Uke Human DNS ink! contract (src/lib.rs): a registry that  *)
(* maps username hashes to account ids, with the messages get_address,     *)
(* register and edit_username.  The hosting environment runs one message   *)
(* to completion before the next, so each message is one action.           *)
(***************************************************************************)
EXTENDS Integers, Sequences, FiniteSets

\* ------------------------------------------------------------------ bounds

\* Name keys explored: Hash values 1..NumHashes.
NumHashes == 3

\* Successful mutating calls explored in one run: no message is dispatched
\* after that many.
MaxCalls == 3

\* ------------------------------------------------------------------- types

Hash == 1..NumHashes

\* Two ordinary accounts, as the tests' default_accounts() supplies them.
Alice == "alice"

Bob == "bob"

\* AccountId::default() is the all-zero account id.
ZeroAccount == "zero"

\* The callers the environment may supply: the type does not exclude the
\* all-zero account.
AccountId == {Alice, Bob, ZeroAccount}

\* Option<AccountId>, as Mapping::get returns it.
None == << >>

Some(a) == << a >>

unwrap_or(o, d) == IF o = None THEN d ELSE o[1]

\* Result<()> values of the messages.
Ok == "Ok"

UsernameAlreadyExists == "UsernameAlreadyExists"

CallerIsNotOwner == "CallerIsNotOwner"

\* The events of the contract.
Register(name, from) == [event |-> "Register", name |-> name, from |-> from]

EditUsername(old_name, new_name, from) ==
    [event |-> "EditUsername", old_name |-> old_name, new_name |-> new_name,
     from |-> from]

\* ------------------------------------------------------------------- state

VARIABLES
    username_to_id,   \* storage: Mapping<Hash, AccountId>, as Hash -> Option
    default_address,  \* storage: AccountId
    events,           \* the events the environment has recorded, in order
    call,             \* the message dispatched last, with its caller
    ret,              \* what that message returned
    pre,              \* storage, events and history right before that message
    history           \* the successful register/edit_username calls, in order

vars == << username_to_id, default_address, events, call, ret, pre, history >>

\* ---------------------------------------------------------- Mapping helpers

contains(m, name) == m[name] # None

get(m, name) == m[name]

insert(m, name, value) == [m EXCEPT ![name] = Some(value)]

remove(m, name) == [m EXCEPT ![name] = None]

\* ---------------------------------------------------------------- contract

\* get_address_or_default that skips the lookup and always answers with the
\* default address.
get_address_or_default_no_lookup(name) == default_address

\* fn get_address_or_default(&self, name) -> AccountId
get_address_or_default(name) ==
    unwrap_or(get(username_to_id, name), default_address)

\* A constructor that leaves an entry in the mapping (a name claimed at
\* deployment) instead of an empty one.
new_preregisters ==
    /\ username_to_id = [h \in Hash |-> IF h = 1 THEN Some(Alice) ELSE None]
    /\ default_address = ZeroAccount

\* A constructor that takes the deploying account as the default address.
new_default_is_deployer ==
    /\ username_to_id = [h \in Hash |-> None]
    /\ default_address = Alice

\* fn new() -> Self : empty mapping, default_address = Default::default()
new ==
    /\ username_to_id = [h \in Hash |-> None]
    /\ default_address = ZeroAccount

\* fn get_address(&self, name) -> AccountId
get_address(name) ==
    /\ ret' = get_address_or_default(name)
    /\ UNCHANGED << username_to_id, default_address, events >>

\* register with the insertion moved before the existence check.
register_insert_first(caller, name) ==
    /\ username_to_id' = insert(username_to_id, name, caller)
    /\ IF contains(username_to_id', name)
       THEN /\ ret' = UsernameAlreadyExists
            /\ UNCHANGED << default_address, events >>
       ELSE /\ events' = Append(events, Register(name, caller))
            /\ ret' = Ok
            /\ UNCHANGED default_address

\* register that stores the contract's default address instead of the caller.
register_wrong_owner(caller, name) ==
    IF contains(username_to_id, name)
    THEN /\ ret' = UsernameAlreadyExists
         /\ UNCHANGED << username_to_id, default_address, events >>
    ELSE /\ username_to_id' = insert(username_to_id, name, default_address)
         /\ events' = Append(events, Register(name, caller))
         /\ ret' = Ok
         /\ UNCHANGED default_address

\* register whose existence check compares the stored owner with the caller,
\* so that only the owner is told the name exists.
register_checks_owner(caller, name) ==
    IF get(username_to_id, name) = Some(caller)
    THEN /\ ret' = UsernameAlreadyExists
         /\ UNCHANGED << username_to_id, default_address, events >>
    ELSE /\ username_to_id' = insert(username_to_id, name, caller)
         /\ events' = Append(events, Register(name, caller))
         /\ ret' = Ok
         /\ UNCHANGED default_address

\* fn register(&mut self, name) -> Result<()>, invoked by caller
register(caller, name) ==
    IF contains(username_to_id, name)
    THEN /\ ret' = UsernameAlreadyExists
         /\ UNCHANGED << username_to_id, default_address, events >>
    ELSE /\ username_to_id' = insert(username_to_id, name, caller)
         /\ events' = Append(events, Register(name, caller))
         /\ ret' = Ok
         /\ UNCHANGED default_address

\* edit_username without the removal of old_name.
edit_username_no_remove(caller, old_name, new_name) ==
    IF get_address_or_default(old_name) # caller
    THEN /\ ret' = CallerIsNotOwner
         /\ UNCHANGED << username_to_id, default_address, events >>
    ELSE /\ username_to_id' = insert(username_to_id, new_name, caller)
         /\ events' = Append(events, EditUsername(old_name, new_name, caller))
         /\ ret' = Ok
         /\ UNCHANGED default_address

\* edit_username whose ownership check reads new_name instead of old_name.
edit_username_checks_new(caller, old_name, new_name) ==
    IF get_address_or_default(new_name) # caller
    THEN /\ ret' = CallerIsNotOwner
         /\ UNCHANGED << username_to_id, default_address, events >>
    ELSE /\ username_to_id' =
                insert(remove(username_to_id, old_name), new_name, caller)
         /\ events' = Append(events, EditUsername(old_name, new_name, caller))
         /\ ret' = Ok
         /\ UNCHANGED default_address

\* edit_username with the removal of old_name moved before the ownership
\* check.
edit_username_remove_first(caller, old_name, new_name) ==
    IF get_address_or_default(old_name) # caller
    THEN /\ username_to_id' = remove(username_to_id, old_name)
         /\ ret' = CallerIsNotOwner
         /\ UNCHANGED << default_address, events >>
    ELSE /\ username_to_id' =
                insert(remove(username_to_id, old_name), new_name, caller)
         /\ events' = Append(events, EditUsername(old_name, new_name, caller))
         /\ ret' = Ok
         /\ UNCHANGED default_address

\* edit_username that emits its event with old_name and new_name exchanged.
edit_username_event_swapped(caller, old_name, new_name) ==
    IF get_address_or_default(old_name) # caller
    THEN /\ ret' = CallerIsNotOwner
         /\ UNCHANGED << username_to_id, default_address, events >>
    ELSE /\ username_to_id' =
                insert(remove(username_to_id, old_name), new_name, caller)
         /\ events' = Append(events, EditUsername(new_name, old_name, caller))
         /\ ret' = Ok
         /\ UNCHANGED default_address

\* edit_username that refuses a new_name another account holds.
edit_username_rejects_taken(caller, old_name, new_name) ==
    IF \/ get_address_or_default(old_name) # caller
       \/ /\ contains(username_to_id, new_name)
          /\ get(username_to_id, new_name) # Some(caller)
    THEN /\ ret' = CallerIsNotOwner
         /\ UNCHANGED << username_to_id, default_address, events >>
    ELSE /\ username_to_id' =
                insert(remove(username_to_id, old_name), new_name, caller)
         /\ events' = Append(events, EditUsername(old_name, new_name, caller))
         /\ ret' = Ok
         /\ UNCHANGED default_address

\* edit_username with old_name and new_name exchanged in the two storage
\* writes.
edit_username_names_swapped(caller, old_name, new_name) ==
    IF get_address_or_default(old_name) # caller
    THEN /\ ret' = CallerIsNotOwner
         /\ UNCHANGED << username_to_id, default_address, events >>
    ELSE /\ username_to_id' =
                insert(remove(username_to_id, new_name), old_name, caller)
         /\ events' = Append(events, EditUsername(old_name, new_name, caller))
         /\ ret' = Ok
         /\ UNCHANGED default_address

\* edit_username with the insertion of new_name before the removal of
\* old_name.
edit_username_insert_first(caller, old_name, new_name) ==
    IF get_address_or_default(old_name) # caller
    THEN /\ ret' = CallerIsNotOwner
         /\ UNCHANGED << username_to_id, default_address, events >>
    ELSE /\ username_to_id' =
                remove(insert(username_to_id, new_name, caller), old_name)
         /\ events' = Append(events, EditUsername(old_name, new_name, caller))
         /\ ret' = Ok
         /\ UNCHANGED default_address

\* edit_username that removes every name the caller holds, not old_name only.
edit_username_drops_all(caller, old_name, new_name) ==
    IF get_address_or_default(old_name) # caller
    THEN /\ ret' = CallerIsNotOwner
         /\ UNCHANGED << username_to_id, default_address, events >>
    ELSE /\ username_to_id' =
                insert([h \in Hash |->
                            IF get(username_to_id, h) = Some(caller)
                            THEN None
                            ELSE get(username_to_id, h)],
                       new_name, caller)
         /\ events' = Append(events, EditUsername(old_name, new_name, caller))
         /\ ret' = Ok
         /\ UNCHANGED default_address

\* fn edit_username(&mut self, old_name, new_name) -> Result<()>, invoked by
\* caller
edit_username(caller, old_name, new_name) ==
    IF get_address_or_default(old_name) # caller
    THEN /\ ret' = CallerIsNotOwner
         /\ UNCHANGED << username_to_id, default_address, events >>
    ELSE /\ username_to_id' =
                insert(remove(username_to_id, old_name), new_name, caller)
         /\ events' = Append(events, EditUsername(old_name, new_name, caller))
         /\ ret' = Ok
         /\ UNCHANGED default_address

\* ------------------------------------------------------------- environment

\* What the environment holds right before it dispatches a message.
Snapshot ==
    [username_to_id |-> username_to_id, default_address |-> default_address,
     events |-> events, history |-> history]

\* No message is running: the last one has returned to its caller.
Idle == [op |-> "idle"]

\* The environment sets the caller and dispatches one message, which runs to
\* completion before anything else happens.  A successful mutating call is
\* appended to history.
CallGetAddress(name) ==
    /\ call = Idle
    /\ Len(history) < MaxCalls
    /\ call' = [op |-> "get_address", name |-> name]
    /\ pre' = Snapshot
    /\ get_address(name)
    /\ UNCHANGED history

CallRegister(caller, name) ==
    /\ call = Idle
    /\ Len(history) < MaxCalls
    /\ call' = [op |-> "register", caller |-> caller, name |-> name]
    /\ pre' = Snapshot
    /\ register(caller, name)
    /\ history' = IF ret' = Ok THEN Append(history, call') ELSE history

CallEditUsername(caller, old_name, new_name) ==
    /\ call = Idle
    /\ Len(history) < MaxCalls
    /\ call' = [op |-> "edit_username", caller |-> caller,
                old_name |-> old_name, new_name |-> new_name]
    /\ pre' = Snapshot
    /\ edit_username(caller, old_name, new_name)
    /\ history' = IF ret' = Ok THEN Append(history, call') ELSE history

\* The environment hands the result to the caller and is ready for the next
\* message; the storage and the recorded events stay as the message left them.
Return ==
    /\ call # Idle
    /\ call' = Idle
    /\ ret' = Ok
    /\ pre' = Snapshot
    /\ UNCHANGED << username_to_id, default_address, events, history >>

Init ==
    /\ new
    /\ events = << >>
    /\ history = << >>
    /\ call = Idle
    /\ ret = Ok
    /\ pre = [username_to_id |-> username_to_id,
              default_address |-> default_address,
              events |-> << >>, history |-> << >>]

Next ==
    \/ \E name \in Hash : CallGetAddress(name)
    \/ \E caller \in AccountId, name \in Hash : CallRegister(caller, name)
    \/ \E caller \in AccountId, old_name \in Hash, new_name \in Hash :
           CallEditUsername(caller, old_name, new_name)
    \/ Return

Spec == Init /\ [][Next]_vars

\* ----------------------------------------------------------------- history

\* A call of the history that registered name k.
IsRegisterOf(c, k) == c.op = "register" /\ c.name = k

\* A call of the history that renamed k to another name.
IsRenameAway(c, k) ==
    c.op = "edit_username" /\ c.old_name = k /\ c.new_name # k

\* A call of the history that renamed some name to k.
IsRenameOnto(c, k) == c.op = "edit_username" /\ c.new_name = k

\* k was the name of a successful register in h.
Registered(h, k) == \E i \in 1..Len(h) : IsRegisterOf(h[i], k)

\* The place in h of the latest successful register of k.
LastRegister(h, k) ==
    CHOOSE i \in 1..Len(h) :
        /\ IsRegisterOf(h[i], k)
        /\ \A j \in (i + 1)..Len(h) : ~IsRegisterOf(h[j], k)

RenamedAwaySince(h, k) ==
    \E j \in (LastRegister(h, k) + 1)..Len(h) : IsRenameAway(h[j], k)

RenamedOntoSince(h, k) ==
    \E j \in (LastRegister(h, k) + 1)..Len(h) : IsRenameOnto(h[j], k)

\* The keys that were the name of a successful register or the new_name of a
\* successful edit_username in h.
Written(h) ==
    {k \in Hash : \E i \in 1..Len(h) :
        IsRegisterOf(h[i], k) \/ IsRenameOnto(h[i], k)}

IsMutatingCall == call.op \in {"register", "edit_username"}

\* -------------------------------------------------------------------- claims

\* C1: register(name), by any caller, while name is present returns
\* UsernameAlreadyExists, leaves the mapping unchanged for every key and emits
\* no notification.
C1_RegisterExistingFails ==
    (call.op = "register" /\ contains(pre.username_to_id, call.name)) =>
        /\ ret = UsernameAlreadyExists
        /\ username_to_id = pre.username_to_id
        /\ events = pre.events

\* A caller other than the owner has tried to register a present name.
C1_Witness ==
    /\ call.op = "register"
    /\ contains(pre.username_to_id, call.name)
    /\ get(pre.username_to_id, call.name) # Some(call.caller)
    /\ ret = UsernameAlreadyExists

\* C2: register(name) by caller c while name is absent returns Ok, and
\* resolving name right afterwards gives c.
C2_RegisterAbsentSucceeds ==
    (call.op = "register" /\ ~contains(pre.username_to_id, call.name)) =>
        /\ ret = Ok
        /\ get_address_or_default(call.name) = call.caller

\* A real account has registered an absent name in a non-empty registry.
C2_Witness ==
    /\ call.op = "register"
    /\ ~contains(pre.username_to_id, call.name)
    /\ call.caller # ZeroAccount
    /\ Len(pre.history) > 0
    /\ ret = Ok

\* C3 as stated: after any successful rename(old, new) by c, old resolves to
\* the default owner and new resolves to c, old = new included.
C3_RenameAtomicityAsStated ==
    (call.op = "edit_username" /\ ret = Ok) =>
        /\ get_address_or_default(call.old_name) = default_address
        /\ get_address_or_default(call.new_name) = call.caller

\* C3 amended: after any successful rename(old, new) by c, new resolves to c,
\* and when old # new, old is absent and resolves to the default owner.
C3_RenameAtomicity ==
    (call.op = "edit_username" /\ ret = Ok) =>
        /\ get_address_or_default(call.new_name) = call.caller
        /\ (call.old_name # call.new_name =>
                /\ ~contains(username_to_id, call.old_name)
                /\ get_address_or_default(call.old_name) = default_address)

\* The owner of a name has renamed it to a different name.
C3_Witness ==
    /\ call.op = "edit_username"
    /\ ret = Ok
    /\ call.old_name # call.new_name
    /\ get(pre.username_to_id, call.old_name) = Some(call.caller)

\* C4: if name is mapped to c1, rename(name, x) by any c2 # c1 returns
\* CallerIsNotOwner and leaves the entries of name and x as they were.
C4_OwnershipGate ==
    (/\ call.op = "edit_username"
     /\ contains(pre.username_to_id, call.old_name)
     /\ get(pre.username_to_id, call.old_name) # Some(call.caller)) =>
        /\ ret = CallerIsNotOwner
        /\ get(username_to_id, call.old_name)
               = get(pre.username_to_id, call.old_name)
        /\ get(username_to_id, call.new_name)
               = get(pre.username_to_id, call.new_name)

\* A real account has tried to rename another real account's name.
C4_Witness ==
    /\ call.op = "edit_username"
    /\ contains(pre.username_to_id, call.old_name)
    /\ get(pre.username_to_id, call.old_name) # Some(call.caller)
    /\ get(pre.username_to_id, call.old_name) # Some(ZeroAccount)
    /\ call.caller # ZeroAccount
    /\ call.old_name # call.new_name
    /\ ret = CallerIsNotOwner

\* C5: no register or rename call by c2 changes the owner of, or removes, a
\* key that another owner c1 # c2 holds right before the call.  Stated for
\* callers other than the all-zero account, so that a violation is a takeover
\* by an ordinary account and not the one C10 is about.
C5_NoTakeover ==
    (IsMutatingCall /\ call.caller # ZeroAccount) =>
        \A k \in Hash :
            (/\ contains(pre.username_to_id, k)
             /\ get(pre.username_to_id, k) # Some(call.caller)) =>
                get(username_to_id, k) = get(pre.username_to_id, k)

\* C6: a register or rename call that returns an error leaves the mapping
\* as it was for every key and emits no notification.
C6_NoOpOnFailure ==
    (IsMutatingCall /\ ret # Ok) =>
        /\ username_to_id = pre.username_to_id
        /\ default_address = pre.default_address
        /\ events = pre.events

\* A call has failed in a registry that holds entries and has emitted events.
C6_Witness ==
    /\ IsMutatingCall
    /\ ret # Ok
    /\ Len(pre.events) > 0
    /\ \E k \in Hash : contains(pre.username_to_id, k)

C8_DefaultResolution ==
    /\ \A k \in Hash \ Written(history) :
           get_address_or_default(k) = default_address
    /\ (call.op = "get_address" /\ call.name \notin Written(history)) =>
           ret = default_address

\* get_address of a never written key in a registry that holds another key.
C8_Witness ==
    /\ call.op = "get_address"
    /\ call.name \notin Written(history)
    /\ Written(history) # {}
    /\ ret = default_address

\* C9: rename(old_name, new_name) whose old_name is absent fails with
\* CallerIsNotOwner and mutates nothing, for every caller.
C9_RenameAbsentFails ==
    (call.op = "edit_username" /\ ~contains(pre.username_to_id, call.old_name)) =>
        /\ ret = CallerIsNotOwner
        /\ username_to_id = pre.username_to_id

\* C10: every rename call whose caller equals the default owner returns
\* CallerIsNotOwner.
C10_DefaultCallerRejected ==
    (call.op = "edit_username" /\ call.caller = default_address) =>
        ret = CallerIsNotOwner

\* C11: no key of the mapping has the default owner as its stored owner,
\* whatever caller the environment supplies to register and rename.
C11_DefaultOwnerNeverStored ==
    \A k \in Hash : get(username_to_id, k) # Some(default_address)

\* The event a successful mutating call of the history is to emit.
EventOf(c) ==
    IF c.op = "register"
    THEN Register(c.name, c.caller)
    ELSE EditUsername(c.old_name, c.new_name, c.caller)

\* C12: a successful register(name) by c emits exactly Register{name, c}, a
\* successful rename(old, new) by c emits exactly EditUsername{old, new, c},
\* a failing call and a resolve emit nothing; the recorded events are, in call
\* order, one per successful mutating call.
C12_Notifications ==
    /\ (IsMutatingCall /\ ret = Ok) =>
           events = Append(pre.events, EventOf(call))
    /\ (IsMutatingCall /\ ret # Ok) => events = pre.events
    /\ call.op = "get_address" => events = pre.events
    /\ Len(events) = Len(history)
    /\ \A i \in 1..Len(history) : events[i] = EventOf(history[i])

\* A rename to a different name has succeeded after earlier successful calls.
C12_Witness ==
    /\ call.op = "edit_username"
    /\ ret = Ok
    /\ call.old_name # call.new_name
    /\ Len(pre.events) > 0
    /\ events[Len(events)] =
           EditUsername(call.old_name, call.new_name, call.caller)

\* C13: resolve(name) never fails and is a pure read: it returns the stored
\* owner when name is present and the default owner otherwise, and leaves the
\* mapping, the default owner and the recorded events unchanged.
C13_ResolvePureRead ==
    call.op = "get_address" =>
        /\ ret \in AccountId
        /\ ret = IF contains(pre.username_to_id, call.name)
                 THEN get(pre.username_to_id, call.name)[1]
                 ELSE pre.default_address
        /\ username_to_id = pre.username_to_id
        /\ default_address = pre.default_address
        /\ events = pre.events

\* A name an ordinary account holds has been resolved.
C13_Witness ==
    /\ call.op = "get_address"
    /\ contains(pre.username_to_id, call.name)
    /\ ret # ZeroAccount
    /\ ret = get(username_to_id, call.name)[1]

\* C14: rename(old_name, new_name) by the owner c of old_name checks nothing
\* about new_name: when new_name is mapped to another owner d # c the call
\* returns Ok, new_name is then mapped to c and old_name is absent.
C14_SilentOverwrite ==
    (/\ call.op = "edit_username"
     /\ get(pre.username_to_id, call.old_name) = Some(call.caller)
     /\ contains(pre.username_to_id, call.new_name)
     /\ get(pre.username_to_id, call.new_name) # Some(call.caller)) =>
        /\ ret = Ok
        /\ get(username_to_id, call.new_name) = Some(call.caller)
        /\ ~contains(username_to_id, call.old_name)

\* An ordinary account has renamed its name onto a name another ordinary
\* account held.
C14_Witness ==
    /\ call.op = "edit_username"
    /\ call.caller # ZeroAccount
    /\ get(pre.username_to_id, call.old_name) = Some(call.caller)
    /\ contains(pre.username_to_id, call.new_name)
    /\ get(pre.username_to_id, call.new_name) # Some(call.caller)
    /\ get(pre.username_to_id, call.new_name) # Some(ZeroAccount)
    /\ get(username_to_id, call.new_name) = Some(call.caller)
    /\ ret = Ok

\* The place in h of the latest successful call that wrote key k.
LastWrite(h, k) ==
    CHOOSE i \in 1..Len(h) :
        /\ IsRegisterOf(h[i], k) \/ IsRenameOnto(h[i], k)
        /\ \A j \in (i + 1)..Len(h) :
               ~(IsRegisterOf(h[j], k) \/ IsRenameOnto(h[j], k))

\* C15: for every key k present with owner o, the last call that wrote k was
\* a successful register(k) by o or a successful rename(old, k) by o; every
\* successful rename found old mapped to its caller right before the call;
\* so every stored owner has completed a successful register before.
C15_Provenance ==
    /\ \A k \in Hash :
           contains(username_to_id, k) =>
               /\ k \in Written(history)
               /\ Some(history[LastWrite(history, k)].caller)
                      = get(username_to_id, k)
    /\ (call.op = "edit_username" /\ ret = Ok) =>
           get(pre.username_to_id, call.old_name) = Some(call.caller)
    /\ \A k \in Hash :
           contains(username_to_id, k) =>
               \E i \in 1..Len(history) :
                   /\ history[i].op = "register"
                   /\ Some(history[i].caller) = get(username_to_id, k)

\* C16: a key that is present becomes absent only by a successful rename with
\* that key as old_name and a different new_name; no register, no failing call
\* and no resolve removes a key.
C16_KeyLifecycle ==
    \A k \in Hash :
        (contains(pre.username_to_id, k) /\ ~contains(username_to_id, k)) =>
            /\ call.op = "edit_username"
            /\ ret = Ok
            /\ call.old_name = k
            /\ call.new_name # k

\* An ordinary account has renamed its name away, which removed the old key.
C16_Witness ==
    /\ call.op = "edit_username"
    /\ ret = Ok
    /\ call.caller # ZeroAccount
    /\ call.old_name # call.new_name
    /\ contains(pre.username_to_id, call.old_name)
    /\ ~contains(username_to_id, call.old_name)

\* C17: rename(k, k) by the current owner c of k returns Ok, emits one
\* EditUsername{k, k, c} and leaves the mapping as it was before the call.
C17_DegenerateRename ==
    (/\ call.op = "edit_username"
     /\ call.old_name = call.new_name
     /\ get(pre.username_to_id, call.old_name) = Some(call.caller)) =>
        /\ ret = Ok
        /\ events = Append(pre.events,
                           EditUsername(call.old_name, call.old_name, call.caller))
        /\ username_to_id = pre.username_to_id

\* An ordinary account has renamed its name to itself, other keys being held.
C17_Witness ==
    /\ call.op = "edit_username"
    /\ call.old_name = call.new_name
    /\ call.caller # ZeroAccount
    /\ get(pre.username_to_id, call.old_name) = Some(call.caller)
    /\ \E k \in Hash \ {call.old_name} : contains(pre.username_to_id, k)
    /\ ret = Ok

\* C18: the default owner is the all-zero account id from construction on,
\* when the mapping is empty, and no register, rename or resolve call
\* modifies it.
C18_DefaultOwnerFixed ==
    /\ default_address = ZeroAccount
    /\ pre.default_address = default_address
    /\ Len(history) = 0 => \A k \in Hash : ~contains(username_to_id, k)

\* Two ordinary accounts have made successful calls, the last one a rename.
C18_Witness ==
    /\ call.op = "edit_username"
    /\ ret = Ok
    /\ call.caller # ZeroAccount
    /\ \E i \in 1..Len(pre.history) :
           pre.history[i].caller \notin {call.caller, ZeroAccount}
    /\ default_address = ZeroAccount

\* C19: a successful register(name) changes the mapping at key name only, a
\* successful rename(old, new) at keys old and new only: every other key
\* keeps the presence and the owner it had before the call.
C19_Frame ==
    /\ (call.op = "register" /\ ret = Ok) =>
           \A k \in Hash \ {call.name} :
               get(username_to_id, k) = get(pre.username_to_id, k)
    /\ (call.op = "edit_username" /\ ret = Ok) =>
           \A k \in Hash \ {call.old_name, call.new_name} :
               get(username_to_id, k) = get(pre.username_to_id, k)

\* An account holding two names has renamed one of them to a third name.
C19_Witness ==
    /\ call.op = "edit_username"
    /\ ret = Ok
    /\ call.old_name # call.new_name
    /\ \E k \in Hash \ {call.old_name, call.new_name} :
           /\ get(pre.username_to_id, k) = Some(call.caller)
           /\ get(username_to_id, k) = Some(call.caller)

\* The number of keys present in mapping m.
Count(m) == Cardinality({k \in Hash : contains(m, k)})

\* The number of successful register calls in h.
Registers(h) == Cardinality({i \in 1..Len(h) : h[i].op = "register"})

\* C20: a rename call never increases the number of present keys: it keeps
\* it, or lowers it by one when new_name was present and differs from
\* old_name; so the number of present keys is at most the number of
\* successful register calls made so far.
C20_EntryCount ==
    /\ call.op = "edit_username" =>
           Count(username_to_id) <= Count(pre.username_to_id)
    /\ (call.op = "edit_username" /\ ret = Ok) =>
           Count(username_to_id) =
               IF /\ contains(pre.username_to_id, call.new_name)
                  /\ call.new_name # call.old_name
               THEN Count(pre.username_to_id) - 1
               ELSE Count(pre.username_to_id)
    /\ Count(username_to_id) <= Registers(history)

====
